---------------------------- MODULE Spec2Model ----------------------------
(***************************************************************************)
(* Model of @vafast/logger: the configuration resolver of createLogger,    *)
(* the composer createLoggerSet and the helpers logError and logRequest.   *)
(*                                                                         *)
(* The repository holds two variants of createLogger.  The one declaring   *)
(* VafastLoggerConfig (src/unnamed/part_001, built as src/dist/index.js)   *)
(* defaults production to false and reads prettyOptions.  The one          *)
(* declaring LoggerConfig (src/src/index.ts, src/unnamed/part_000)         *)
(* defaults production to process.env.NODE_ENV === 'production' and has no *)
(* prettyOptions.  The variable variant says which one is loaded.          *)
(*                                                                         *)
(* JavaScript objects are functions from a set of keys: an omitted key is  *)
(* a key outside the DOMAIN.  pino itself is outside the repository: a     *)
(* handle records which pino() call built it and the bindings handed to    *)
(* child(), and a logging call on a handle is recorded as it was made.     *)
(***************************************************************************)
EXTENDS Integers, Sequences, FiniteSets, TLC

VARIABLES
    variant,      \* which createLogger is loaded
    processEnv,   \* process.env
    args,         \* arguments of the factory call of this run
    call,         \* the last operation that completed ("none" before any)
    pinoCalls,    \* the options objects handed to pino(), in order
    returned,     \* what the last factory call returned
    helperArgs,   \* arguments of the last helper call
    forwarded,    \* the logger calls made by the last helper call, in order
    nforwarded,   \* how many logger calls the helpers made so far
    loggerDoes,   \* what the logger call of the last helper call did
    outcome,      \* how the last helper call ended
    heap,         \* the objects, by address: the caller's, then those the calls build
    optionsAt,    \* the address of the options object of each pino() call
    touched       \* the pino() calls whose options object something wrote to

\* What the helpers read and write
helperVars == <<helperArgs, forwarded, nforwarded, loggerDoes, outcome>>

\* The objects
heapVars == <<heap, optionsAt, touched>>

vars == <<variant, processEnv, args, call, pinoCalls, returned, helperVars, heapVars>>

(***************************************************************************)
(* Objects                                                                 *)
(***************************************************************************)
\* {}
Empty == [k \in {} |-> TRUE]

\* { [k]: v }
Prop(k, v) == k :> v

\* Has(o, k): k is an own key of o
Has(o, k) == k \in DOMAIN o

\* Destructuring with a default, `const { k = d } = o`
Get(o, k, d) == IF Has(o, k) THEN o[k] ELSE d

\* Object spread { ...a, ...b }: the later source wins
Spread(a, b) == b @@ a

\* All objects with keys among ks, the value of key k drawn from vals[k]
RECURSIVE Objects(_, _)
Objects(ks, vals) ==
    IF ks = {} THEN {Empty}
    ELSE LET k == CHOOSE x \in ks : TRUE
             rest == Objects(ks \ {k}, vals)
         IN  rest \cup {Spread(o, Prop(k, v)) : o \in rest, v \in vals[k]}

(***************************************************************************)
(* Types and inputs                                                        *)
(***************************************************************************)
VafastVariant == "VafastLoggerConfig"
EnvVariant    == "LoggerConfig"
Variants      == {VafastVariant, EnvVariant}

Levels == {"trace", "debug", "info", "warn", "error", "fatal", "silent"}

\* process.env with NODE_ENV unset, "production" or "development"
ProcessEnvs == {Empty, [NODE_ENV |-> "production"], [NODE_ENV |-> "development"]}

\* A transport a caller passes through pinoOptions
CustomTransport == [target |-> "pino/file", options |-> [destination |-> "app.log"]]

PrettyOptionsInputs ==
    Objects({"colorize", "translateTime", "ignore"},
            [colorize |-> BOOLEAN, translateTime |-> {"HH:MM:ss"}, ignore |-> {"time"}])

PinoOptionsInputs ==
    Objects({"level", "name", "transport"},
            [level |-> {"trace"}, name |-> {"override"}, transport |-> {CustomTransport}])

ConfigInputs ==
    Objects({"level", "production", "name", "pretty", "prettyOptions", "pinoOptions"},
            [level |-> Levels, production |-> BOOLEAN, name |-> {"", "my-app"},
             pretty |-> BOOLEAN, prettyOptions |-> PrettyOptionsInputs,
             pinoOptions |-> PinoOptionsInputs])

\* createLogger() and createLogger(config)
FactoryArgs == {Empty} \cup {[config |-> c] : c \in ConfigInputs}

(***************************************************************************)
(* createLogger                                                            *)
(***************************************************************************)
PrettyTarget == "pino-pretty"

\* Slip: the name key is always written, also for an omitted or empty name
NameSpread_Always(config) == [name |-> Get(config, "name", "")]

\* `...(name && { name })`: spreads nothing for an omitted or empty name
NameSpread(config) ==
    IF Has(config, "name") /\ config.name # "" THEN [name |-> config.name] ELSE Empty

\* Slip: the requested level is used in production too
EffectiveLevel_Requested(production, level) == level

\* `level: production ? 'info' : level`
EffectiveLevel(production, level) == IF production THEN "info" ELSE level

\* Slip: pinoOptions spread first, so the computed fields win
BaseOptions_PinoFirst(config, production, level, pinoOptions) ==
    Spread(pinoOptions,
           Spread([level |-> EffectiveLevel(production, level)], NameSpread(config)))

\* `{ level: ..., ...(name && { name }), ...pinoOptions }`
BaseOptions(config, production, level, pinoOptions) ==
    Spread(Spread([level |-> EffectiveLevel(production, level)], NameSpread(config)),
           pinoOptions)

\* Slip: the pretty transport is attached in production too
PrettyEnabled_AnyMode(production, pretty) == pretty

\* `if (!production && pretty)`
PrettyEnabled(production, pretty) == ~production /\ pretty

\* `options.transport = ...`: an assignment, after the spreads
SetTransport(options, transport) == Spread(options, [transport |-> transport])

\* Slip: production defaults to true
VafastProduction_True(config) == Get(config, "production", TRUE)

\* `production = false`
VafastProduction(config) == Get(config, "production", FALSE)

\* `production = process.env.NODE_ENV === 'production'`
EnvProduction(env, config) ==
    Get(config, "production", Has(env, "NODE_ENV") /\ env.NODE_ENV = "production")

\* The transport of the VafastLoggerConfig variant: `prettyOptions.x ?? default`
VafastTransport(prettyOptions) ==
    [target  |-> PrettyTarget,
     options |-> [colorize      |-> Get(prettyOptions, "colorize", TRUE),
                  translateTime |-> Get(prettyOptions, "translateTime", "SYS:standard"),
                  ignore        |-> Get(prettyOptions, "ignore", "pid,hostname")]]

\* The transport of the LoggerConfig variant: three fixed sub-options
EnvTransport ==
    [target  |-> PrettyTarget,
     options |-> [colorize      |-> TRUE,
                  translateTime |-> "SYS:standard",
                  ignore        |-> "pid,hostname"]]

\* The options object of the VafastLoggerConfig variant
VafastOptions(config) ==
    LET level         == Get(config, "level", "info")
        production    == VafastProduction(config)
        pinoOptions   == Get(config, "pinoOptions", Empty)
        pretty        == Get(config, "pretty", TRUE)
        prettyOptions == Get(config, "prettyOptions", Empty)
        options       == BaseOptions(config, production, level, pinoOptions)
    IN  IF PrettyEnabled(production, pretty)
        THEN SetTransport(options, VafastTransport(prettyOptions))
        ELSE options

\* The options object of the LoggerConfig variant
EnvOptions(env, config) ==
    LET level       == Get(config, "level", "info")
        production  == EnvProduction(env, config)
        pretty      == Get(config, "pretty", TRUE)
        pinoOptions == Get(config, "pinoOptions", Empty)
        options     == BaseOptions(config, production, level, pinoOptions)
    IN  IF PrettyEnabled(production, pretty)
        THEN SetTransport(options, EnvTransport)
        ELSE options

\* `config = {}`: the parameter default
ConfigOf(a) == Get(a, "config", Empty)

\* The options createLogger hands to pino for the arguments a
ResolveOptions(v, env, a) ==
    IF v = VafastVariant THEN VafastOptions(ConfigOf(a)) ELSE EnvOptions(env, ConfigOf(a))

\* pino(options): the handle of the n-th pino() call, with no bindings
pino(n) == [pino |-> n, bindings |-> Empty]

\* parent.child({ module })
createChildLogger(parent, module) ==
    [pino |-> parent.pino, bindings |-> Spread(parent.bindings, [module |-> module])]

\* Slip: the db slot is bound to the module of the slot above it
LoggerSetOf_CopyPaste(app) ==
    [app        |-> app,
     route      |-> createChildLogger(app, "route"),
     db         |-> createChildLogger(app, "route"),
     middleware |-> createChildLogger(app, "middleware"),
     auth       |-> createChildLogger(app, "auth"),
     external   |-> createChildLogger(app, "external")]

\* return { app, route, db, middleware, auth, external }
LoggerSetOf(app) ==
    [app        |-> app,
     route      |-> createChildLogger(app, "route"),
     db         |-> createChildLogger(app, "db"),
     middleware |-> createChildLogger(app, "middleware"),
     auth       |-> createChildLogger(app, "auth"),
     external   |-> createChildLogger(app, "external")]

(***************************************************************************)
(* Objects by reference                                                    *)
(*                                                                         *)
(* A property that holds an object holds its address.  The caller's        *)
(* objects sit at fixed addresses; what lies below a transport object is   *)
(* kept inside it as a value.                                              *)
(***************************************************************************)
Ref(a) == [ref |-> a]

ConfigAddress        == 1
PrettyOptionsAddress == 2
PinoOptionsAddress   == 3
TransportAddress     == 4

\* The caller's objects for the arguments a: config, config.prettyOptions,
\* config.pinoOptions and config.pinoOptions.transport
CallerHeap(a) ==
    LET config      == ConfigOf(a)
        pinoOptions == Get(config, "pinoOptions", Empty)
    IN  << [k \in DOMAIN config |->
               IF k = "prettyOptions" THEN Ref(PrettyOptionsAddress)
               ELSE IF k = "pinoOptions" THEN Ref(PinoOptionsAddress)
               ELSE config[k]],
           Get(config, "prettyOptions", Empty),
           [k \in DOMAIN pinoOptions |->
               IF k = "transport" THEN Ref(TransportAddress) ELSE pinoOptions[k]],
           Get(pinoOptions, "transport", Empty) >>

\* The config as the destructuring of createLogger reads it: prettyOptions and
\* pinoOptions are the objects the config refers to
ConfigAt(h) ==
    [k \in DOMAIN h[ConfigAddress] |->
        IF k \in {"prettyOptions", "pinoOptions"}
        THEN h[h[ConfigAddress][k].ref]
        ELSE h[ConfigAddress][k]]

\* Slip: one options object kept across calls and filled again by each
NewAddress_Cached(h) ==
    IF Len(h) > TransportAddress THEN TransportAddress + 1 ELSE Len(h) + 1

\* `const options = { ... }`: an object literal is a new object
NewAddress(h) == Len(h) + 1

\* The object o written at address a
Put(h, a, o) == IF a <= Len(h) THEN [h EXCEPT ![a] = o] ELSE Append(h, o)

\* The transport of the options is an object literal of createLogger, not a
\* reference copied from pinoOptions
OwnTransport(options) == Has(options, "transport") /\ ~Has(options.transport, "ref")

\* The heap once the options object is built at address a; a transport literal
\* is a new object of its own
Build(h, a, options) ==
    IF OwnTransport(options)
    THEN Append(Put(h, a, [options EXCEPT !.transport = Ref(Len(Put(h, a, options)) + 1)]),
                options.transport)
    ELSE Put(h, a, options)

\* The options object at address a, with its transport read through
OptionsValue(h, a) ==
    [k \in DOMAIN h[a] |-> IF k = "transport" THEN h[h[a][k].ref] ELSE h[a][k]]

(***************************************************************************)
(* The factory calls                                                       *)
(***************************************************************************)
Init ==
    /\ variant \in Variants
    /\ processEnv \in ProcessEnvs
    /\ args \in FactoryArgs
    /\ call = "none"
    /\ pinoCalls = <<>>
    /\ returned = Empty
    /\ helperArgs = Empty
    /\ forwarded = <<>>
    /\ nforwarded = 0
    /\ loggerDoes = Empty
    /\ outcome = Empty
    /\ heap = CallerHeap(args)
    /\ optionsAt = <<>>
    /\ touched = {}

\* createLogger up to `pino(options)`: the options object is built from the
\* caller's objects as they are, and handed to pino
HandToPino ==
    LET options == ResolveOptions(variant, processEnv, [config |-> ConfigAt(heap)])
        a       == NewAddress(heap)
    IN  /\ heap' = Build(heap, a, options)
        /\ optionsAt' = Append(optionsAt, a)
        /\ pinoCalls' = Append(pinoCalls, OptionsValue(heap', a))
        /\ UNCHANGED touched

createLogger ==
    /\ call = "none"
    /\ HandToPino
    /\ returned' = pino(Len(pinoCalls) + 1)
    /\ call' = "createLogger"
    /\ UNCHANGED <<variant, processEnv, args, helperVars>>

createLoggerSet ==
    /\ call = "none"
    /\ HandToPino
    /\ returned' = LoggerSetOf(pino(Len(pinoCalls) + 1))
    /\ call' = "createLoggerSet"
    /\ UNCHANGED <<variant, processEnv, args, helperVars>>

Next == createLogger \/ createLoggerSet

Spec == Init /\ [][Next]_vars

(***************************************************************************)
(* createLogger called again with the same config, and what is then        *)
(* written to the options pino was handed                                  *)
(***************************************************************************)
\* How many createLogger calls a run makes
MaxCreates == 2

\* Configs with and without a passthrough transport, in and out of production
TwiceArgs ==
    {Empty,
     [config |-> [name |-> "my-app", prettyOptions |-> [colorize |-> FALSE]]],
     [config |-> [level |-> "debug", pinoOptions |-> [transport |-> CustomTransport]]],
     [config |-> [level |-> "debug", production |-> TRUE,
                  pinoOptions |-> [name |-> "override", transport |-> CustomTransport]]],
     [config |-> [pretty |-> FALSE,
                  pinoOptions |-> [level |-> "trace", transport |-> CustomTransport]]]}

\* The values written to an options object and to a transport
WrittenLevel  == "silent"
WrittenTarget == "pino/other"

\* The pino() calls made so far
PinoCallIds == 1..Len(pinoCalls)

createLoggerAgain ==
    /\ call # "none"
    /\ Len(pinoCalls) < MaxCreates
    /\ HandToPino
    /\ returned' = pino(Len(pinoCalls) + 1)
    /\ call' = "createLogger"
    /\ UNCHANGED <<variant, processEnv, args, helperVars>>

\* A write of the level property of the options object of the i-th call
WriteOptionsLevel ==
    /\ \E i \in PinoCallIds :
        /\ heap' = [heap EXCEPT ![optionsAt[i]].level = WrittenLevel]
        /\ touched' = touched \cup {i}
    /\ call' = "writeOptions"
    /\ UNCHANGED <<variant, processEnv, args, pinoCalls, returned, helperVars,
                   optionsAt>>

\* A write of the target of the transport the options object of the i-th call
\* refers to
WriteOptionsTransport ==
    /\ \E i \in PinoCallIds :
        /\ Has(heap[optionsAt[i]], "transport")
        /\ heap' = [heap EXCEPT ![heap[optionsAt[i]].transport.ref].target = WrittenTarget]
        /\ touched' = touched \cup {i}
    /\ call' = "writeTransport"
    /\ UNCHANGED <<variant, processEnv, args, pinoCalls, returned, helperVars,
                   optionsAt>>

InitTwice ==
    /\ variant \in Variants
    /\ processEnv \in ProcessEnvs
    /\ args \in TwiceArgs
    /\ call = "none"
    /\ pinoCalls = <<>>
    /\ returned = Empty
    /\ helperArgs = Empty
    /\ forwarded = <<>>
    /\ nforwarded = 0
    /\ loggerDoes = Empty
    /\ outcome = Empty
    /\ heap = CallerHeap(args)
    /\ optionsAt = <<>>
    /\ touched = {}

NextTwice ==
    createLogger \/ createLoggerAgain \/ WriteOptionsLevel \/ WriteOptionsTransport

SpecTwice == InitTwice /\ [][NextTwice]_vars

(***************************************************************************)
(* logError and logRequest                                                 *)
(***************************************************************************)
\* How many helper calls a run makes
MaxHelperCalls == 1

ErrorInputs ==
    {[message |-> "boom", name |-> "Error", stack |-> "Error: boom\n    at run"],
     [message |-> "", name |-> "TypeError", stack |-> "TypeError\n    at run"]}

MessageInputs == {"", "Operation failed"}

\* Contexts: a plain one, and two whose keys collide with built-in fields
ContextInputs ==
    {[userId |-> "123"],
     [err |-> [message |-> "masked", name |-> "Masked", stack |-> ""], userId |-> "123"],
     [method |-> "PATCH", status |-> 999]}

MethodInputs   == {"GET", "POST"}
PathInputs     == {"/api/users", "/"}
StatusInputs   == {-1, 200, 399, 400, 404, 499, 500, 600}
DurationInputs == {0, 15}

\* The factory arguments of the runs that exercise the helpers
HelperFactoryArgs == {[config |-> [name |-> "test", pretty |-> FALSE]]}

Digit(d) ==
    CASE d = 0 -> "0" [] d = 1 -> "1" [] d = 2 -> "2" [] d = 3 -> "3" [] d = 4 -> "4"
      [] d = 5 -> "5" [] d = 6 -> "6" [] d = 7 -> "7" [] d = 8 -> "8" [] d = 9 -> "9"

RECURSIVE Digits(_)
Digits(n) == IF n < 10 THEN Digit(n) ELSE Digits(n \div 10) \o Digit(n % 10)

\* `${n}` of an integer n: its decimal digits, with a leading minus sign
NumberToString(n) == IF n < 0 THEN "-" \o Digits(-n) ELSE Digits(n)

\* Slip: `message || error.message`, which also replaces an empty message
ErrorMessage_Or(a) ==
    IF Has(a, "message") /\ a.message # "" THEN a.message ELSE a.error.message

\* `message ?? error.message`
ErrorMessage(a) == IF Has(a, "message") THEN a.message ELSE a.error.message

\* `{ err: { message, name, stack }, ...context }`
ErrorPayload(a) ==
    Spread([err |-> [message |-> a.error.message,
                     name    |-> a.error.name,
                     stack   |-> a.error.stack]],
           Get(a, "context", Empty))

\* The logger calls logError(a.logger, a.error, a.message, a.context) makes
logError(a) ==
    <<[logger |-> a.logger, level |-> "error",
       obj |-> ErrorPayload(a), msg |-> ErrorMessage(a)]>>

\* Slip: exclusive thresholds
RequestLevel_Exclusive(status) ==
    IF status > 500 THEN "error" ELSE IF status > 400 THEN "warn" ELSE "info"

\* `status >= 500 ? 'error' : status >= 400 ? 'warn' : 'info'`
RequestLevel(status) ==
    IF status >= 500 THEN "error" ELSE IF status >= 400 THEN "warn" ELSE "info"

\* Slip: a space before the unit
RequestMessage_SpacedUnit(a) ==
    a.method \o " " \o a.path \o " " \o NumberToString(a.status)
             \o " " \o NumberToString(a.duration) \o " ms"

\* `${method} ${path} ${status} ${duration}ms`
RequestMessage(a) ==
    a.method \o " " \o a.path \o " " \o NumberToString(a.status)
             \o " " \o NumberToString(a.duration) \o "ms"

\* Slip: the context spread first, so the built-in fields win
RequestPayload_ContextFirst(a) ==
    Spread(Get(a, "context", Empty),
           [method |-> a.method, path |-> a.path,
            status |-> a.status, duration |-> a.duration])

\* `{ method, path, status, duration, ...context }`
RequestPayload(a) ==
    Spread([method |-> a.method, path |-> a.path,
            status |-> a.status, duration |-> a.duration],
           Get(a, "context", Empty))

\* The logger calls logRequest(a.logger, a.method, a.path, a.status, a.duration,
\* a.context) makes
logRequest(a) ==
    <<[logger |-> a.logger, level |-> RequestLevel(a.status),
       obj |-> RequestPayload(a), msg |-> RequestMessage(a)]>>

\* What the underlying logger call may throw
LoggerFailures == {[name |-> "Error", message |-> "write EPIPE"]}

\* The logger call returns, or throws one of the failures
LoggerBehaviours == {Empty} \cup {Prop("throws", f) : f \in LoggerFailures}

\* Slip: the logger call wrapped in a try/catch that drops the failure
HelperOutcome_Swallowed(does) == [returned |-> "undefined"]

\* The logger call is the only statement of either helper, outside any try: what
\* it throws leaves the helper as it is, and otherwise the helper returns nothing
HelperOutcome(does) ==
    IF Has(does, "throws") THEN [threw |-> does.throws] ELSE [returned |-> "undefined"]

\* The handles the helpers are called with: the logger createLogger returned, or
\* the root and one child of the set createLoggerSet returned
Loggers ==
    IF Has(returned, "app") THEN {returned.app, returned.db}
    ELSE IF Has(returned, "pino") THEN {returned}
    ELSE {}

\* The optional trailing arguments: each one passed or left out
Optional(k, vals) == {Empty} \cup {Prop(k, v) : v \in vals}

\* logError(l, e), logError(l, e, message), logError(l, e, message, context) and
\* logError(l, e, undefined, context)
LogErrorArgs(l, e, m, c) == Spread(Spread([logger |-> l, error |-> e], m), c)

\* logRequest(l, m, p, s, d) and logRequest(l, m, p, s, d, context)
LogRequestArgs(l, m, p, s, d, c) ==
    Spread([logger |-> l, method |-> m, path |-> p, status |-> s, duration |-> d], c)

LogError ==
    /\ nforwarded < MaxHelperCalls
    /\ \E l \in Loggers, e \in ErrorInputs,
          m \in Optional("message", MessageInputs),
          c \in Optional("context", ContextInputs),
          does \in LoggerBehaviours :
        LET a == LogErrorArgs(l, e, m, c)
        IN  /\ helperArgs' = a
            /\ forwarded' = logError(a)
            /\ nforwarded' = nforwarded + Len(logError(a))
            /\ loggerDoes' = does
            /\ outcome' = HelperOutcome(does)
    /\ call' = "logError"
    /\ UNCHANGED <<variant, processEnv, args, pinoCalls, returned, heapVars>>

\* logRequest is exported by the VafastLoggerConfig variant only
LogRequest ==
    /\ variant = VafastVariant
    /\ nforwarded < MaxHelperCalls
    /\ \E l \in Loggers, m \in MethodInputs, p \in PathInputs,
          s \in StatusInputs, d \in DurationInputs,
          c \in Optional("context", ContextInputs),
          does \in LoggerBehaviours :
        LET a == LogRequestArgs(l, m, p, s, d, c)
        IN  /\ helperArgs' = a
            /\ forwarded' = logRequest(a)
            /\ nforwarded' = nforwarded + Len(logRequest(a))
            /\ loggerDoes' = does
            /\ outcome' = HelperOutcome(does)
    /\ call' = "logRequest"
    /\ UNCHANGED <<variant, processEnv, args, pinoCalls, returned, heapVars>>

InitHelpers ==
    /\ variant \in Variants
    /\ processEnv = Empty
    /\ args \in HelperFactoryArgs
    /\ call = "none"
    /\ pinoCalls = <<>>
    /\ returned = Empty
    /\ helperArgs = Empty
    /\ forwarded = <<>>
    /\ nforwarded = 0
    /\ loggerDoes = Empty
    /\ outcome = Empty
    /\ heap = CallerHeap(args)
    /\ optionsAt = <<>>
    /\ touched = {}

NextHelpers == createLogger \/ createLoggerSet \/ LogError \/ LogRequest

SpecHelpers == InitHelpers /\ [][NextHelpers]_vars

\* The options the factory call of this run handed to pino
Options == pinoCalls[1]

\* Some factory call completed
Created == call \in {"createLogger", "createLoggerSet"}

(***************************************************************************)
(* What the claims speak of                                                *)
(***************************************************************************)
\* The config of the factory call, its pinoOptions and its prettyOptions
Cfg           == Get(args, "config", Empty)
PinoOpts      == Get(Cfg, "pinoOptions", Empty)
PrettyOpts    == Get(Cfg, "prettyOptions", Empty)

\* NODE_ENV is "production"
EnvIsProduction == Has(processEnv, "NODE_ENV") /\ processEnv.NODE_ENV = "production"

\* production as given, and as each variant resolves it when it is omitted
GivenProduction == Has(Cfg, "production") /\ Cfg.production
OmittedProduction == variant = EnvVariant /\ EnvIsProduction
ResolvedProduction == IF Has(Cfg, "production") THEN Cfg.production ELSE OmittedProduction

\* pretty is true or omitted
ResolvedPretty == ~Has(Cfg, "pretty") \/ Cfg.pretty

\* The options carry the pino-pretty transport descriptor
HasPrettyTransport == Has(Options, "transport") /\ Options.transport.target = PrettyTarget

(***************************************************************************)
(* C1                                                                      *)
(***************************************************************************)
\* C1 as stated: with production=true the level handed to pino is "info",
\* whatever the requested level and whatever pinoOptions holds.
C1_AsStated ==
    (Created /\ GivenProduction) => Options.level = "info"

\* C1 (amended): with production=true and a pinoOptions that supplies no level,
\* the level handed to pino is "info" whatever the requested level and the other
\* fields of the config; a level in pinoOptions is the one handed to pino.
C1_ProductionForcesInfo ==
    (Created /\ GivenProduction) =>
        Options.level = (IF Has(PinoOpts, "level") THEN PinoOpts.level ELSE "info")

C1_Witness ==
    /\ Created
    /\ GivenProduction
    /\ Has(Cfg, "level") /\ Cfg.level = "debug"
    /\ Has(Cfg, "pinoOptions") /\ ~Has(PinoOpts, "level") /\ Has(PinoOpts, "name")
    /\ Options.level = "info"

(***************************************************************************)
(* C2                                                                      *)
(***************************************************************************)
\* C2 as stated: the options carry a transport descriptor if and only if
\* production is false and pretty is true or omitted, and then it is pino-pretty.
C2_AsStated ==
    Created =>
        /\ Has(Options, "transport") <=> (~ResolvedProduction /\ ResolvedPretty)
        /\ Has(Options, "transport") => Options.transport.target = PrettyTarget

\* C2 (amended): with production false and pretty true or omitted the options
\* carry the pino-pretty transport descriptor; with pretty=false or
\* production=true the options carry a transport only when pinoOptions supplies
\* one, and then it is that one, unchanged.
C2_TransportAttachment ==
    Created =>
        IF ~ResolvedProduction /\ ResolvedPretty
        THEN HasPrettyTransport
        ELSE /\ Has(Options, "transport") <=> Has(PinoOpts, "transport")
             /\ Has(Options, "transport") => Options.transport = PinoOpts.transport

C2_Witness ==
    /\ Created
    /\ Has(Cfg, "production") /\ ~Cfg.production
    /\ ~Has(Cfg, "pretty")
    /\ ~Has(PinoOpts, "transport")
    /\ HasPrettyTransport

(***************************************************************************)
(* C3                                                                      *)
(***************************************************************************)
\* C3 as stated: for each of level, name and transport, a value supplied by
\* pinoOptions is the value handed to pino.
C3_AsStated ==
    Created =>
        \A f \in {"level", "name", "transport"} :
            Has(PinoOpts, f) => (Has(Options, f) /\ Options[f] = PinoOpts[f])

\* C3 (amended): a level or a name supplied by pinoOptions is the value handed
\* to pino, not the computed one; a transport supplied by pinoOptions is handed
\* to pino only when the pretty transport is not attached (production true or
\* pretty false), and is replaced by the pino-pretty descriptor when it is.
C3_PinoOptionsOverride ==
    Created =>
        /\ \A f \in {"level", "name"} :
              Has(PinoOpts, f) => (Has(Options, f) /\ Options[f] = PinoOpts[f])
        /\ Has(PinoOpts, "transport") =>
              /\ Has(Options, "transport")
              /\ Options.transport =
                    (IF ResolvedProduction \/ ~ResolvedPretty
                     THEN PinoOpts.transport
                     ELSE [target  |-> PrettyTarget,
                           options |-> Options.transport.options])

C3_Witness ==
    /\ Created
    /\ Has(Cfg, "level") /\ Cfg.level = "error"
    /\ Has(Cfg, "name") /\ Cfg.name = "my-app"
    /\ Has(PinoOpts, "level") /\ Has(PinoOpts, "name") /\ Has(PinoOpts, "transport")
    /\ Options.level = "trace"
    /\ Options.name = "override"
    /\ HasPrettyTransport

(***************************************************************************)
(* C4                                                                      *)
(***************************************************************************)
ModuleSlots == {"route", "db", "middleware", "auth", "external"}

\* C4: createLoggerSet returns exactly the six slots app, route, db, middleware,
\* auth and external; each non-app slot is a child of app bound to exactly
\* {module: <its slot name>}, and app carries no module binding.
C4_LoggerSetShape ==
    call = "createLoggerSet" =>
        /\ DOMAIN returned = {"app"} \cup ModuleSlots
        /\ Len(pinoCalls) = 1
        /\ returned.app.pino = 1
        /\ ~Has(returned.app.bindings, "module")
        /\ \A s \in ModuleSlots :
              /\ returned[s].pino = returned.app.pino
              /\ returned[s].bindings = [module |-> s]

C4_Witness ==
    /\ call = "createLoggerSet"
    /\ Has(Cfg, "name") /\ Cfg.name = "my-app"
    /\ returned.db.bindings = [module |-> "db"]
    /\ returned.external.bindings = [module |-> "external"]
    /\ returned.app.bindings = Empty

(***************************************************************************)
(* C5, C6, C7: the helpers, under SpecHelpers                              *)
(***************************************************************************)
\* The context argument of the last helper call ({} when it was left out)
Ctx == Get(helperArgs, "context", Empty)

\* C5: logRequest logs at exactly one severity: error when status >= 500, warn
\* when 400 <= status <= 499, info for every other status (below 100 included,
\* above 599 being error); the severity depends on the status argument only.
C5_SeverityByStatus ==
    call = "logRequest" =>
        /\ Len(forwarded) = 1
        /\ forwarded[1].level =
              (IF helperArgs.status >= 500 THEN "error"
               ELSE IF 400 <= helperArgs.status /\ helperArgs.status <= 499 THEN "warn"
               ELSE "info")

C5_Witness ==
    /\ call = "logRequest"
    /\ helperArgs.status = 500
    /\ Has(Ctx, "status") /\ Ctx.status = 999
    /\ forwarded[1].level = "error"

RequestFields == {"method", "path", "status", "duration"}

\* C6: logRequest forwards exactly one record to the logger it was given; the
\* payload is {method, path, status, duration} extended with the context
\* entries, and the message is "<method> <path> <status> <duration>ms", built
\* from the arguments whatever the context holds.
C6_RequestRecord ==
    call = "logRequest" =>
        /\ Len(forwarded) = 1
        /\ forwarded[1].logger = helperArgs.logger
        /\ DOMAIN forwarded[1].obj = RequestFields \cup DOMAIN Ctx
        /\ \A k \in DOMAIN Ctx : forwarded[1].obj[k] = Ctx[k]
        /\ \A k \in RequestFields \ DOMAIN Ctx : forwarded[1].obj[k] = helperArgs[k]
        /\ forwarded[1].msg =
              helperArgs.method \o " " \o helperArgs.path \o " "
                 \o ToString(helperArgs.status) \o " "
                 \o ToString(helperArgs.duration) \o "ms"
        /\ (/\ helperArgs.method = "GET" /\ helperArgs.path = "/api/users"
            /\ helperArgs.status = 200 /\ helperArgs.duration = 15)
              => forwarded[1].msg = "GET /api/users 200 15ms"

C6_Witness ==
    /\ call = "logRequest"
    /\ nforwarded = 1
    /\ Has(Ctx, "method") /\ Ctx.method = "PATCH"
    /\ forwarded[1].obj.path = "/api/users"
    /\ forwarded[1].msg = "GET /api/users 200 15ms"

\* C7 as stated: logError forwards exactly one record at severity error whose
\* payload has an err field holding the error's message, name and stack, and
\* whose message is the message argument when given (an empty string included)
\* and error.message when not.
C7_AsStated ==
    call = "logError" =>
        /\ Len(forwarded) = 1
        /\ forwarded[1].level = "error"
        /\ Has(forwarded[1].obj, "err")
        /\ forwarded[1].obj.err = [message |-> helperArgs.error.message,
                                   name    |-> helperArgs.error.name,
                                   stack   |-> helperArgs.error.stack]
        /\ forwarded[1].msg = (IF Has(helperArgs, "message") THEN helperArgs.message
                               ELSE helperArgs.error.message)

\* C7 (amended): logError forwards exactly one record at severity error whose
\* payload has an err field holding the error's message, name and stack unless
\* the context has an err key of its own, whose value is then the err field;
\* the message is the message argument when given (an empty string included)
\* and error.message when not.
C7_ErrorRecord ==
    call = "logError" =>
        /\ Len(forwarded) = 1
        /\ forwarded[1].logger = helperArgs.logger
        /\ forwarded[1].level = "error"
        /\ Has(forwarded[1].obj, "err")
        /\ forwarded[1].obj.err =
              (IF Has(Ctx, "err") THEN Ctx.err
               ELSE [message |-> helperArgs.error.message,
                     name    |-> helperArgs.error.name,
                     stack   |-> helperArgs.error.stack])
        /\ forwarded[1].msg = (IF Has(helperArgs, "message") THEN helperArgs.message
                               ELSE helperArgs.error.message)

C7_Witness ==
    /\ call = "logError"
    /\ helperArgs.error.message = "boom"
    /\ Has(helperArgs, "message") /\ helperArgs.message = ""
    /\ ~Has(Ctx, "err")
    /\ forwarded[1].obj.err.name = "Error"
    /\ forwarded[1].msg = ""

(***************************************************************************)
(* C8, C9, C10: under Spec                                                 *)
(***************************************************************************)
\* C8 as stated: an omitted production resolves to false and an omitted level
\* to "info", whatever the process environment: the level handed to pino is the
\* requested one and the pretty transport is attached unless pretty is false.
C8_AsStated ==
    (Created /\ ~Has(Cfg, "production") /\ ~Has(Cfg, "pinoOptions")) =>
        /\ Options.level = Get(Cfg, "level", "info")
        /\ HasPrettyTransport <=> ResolvedPretty

\* C8 (amended): an omitted level resolves to "info"; an omitted production
\* resolves to false in the VafastLoggerConfig variant, whatever the process
\* environment, and to NODE_ENV === 'production' in the LoggerConfig variant.
\* So createLogger({level: L}) yields level L and createLogger() yields "info"
\* with the pretty transport, except in the LoggerConfig variant under
\* NODE_ENV=production, where both yield "info" and no transport.
C8_OmittedProduction ==
    (Created /\ ~Has(Cfg, "production") /\ ~Has(Cfg, "pinoOptions")) =>
        IF variant = EnvVariant /\ EnvIsProduction
        THEN Options.level = "info" /\ ~Has(Options, "transport")
        ELSE /\ Options.level = Get(Cfg, "level", "info")
             /\ HasPrettyTransport <=> ResolvedPretty

C8_Witness ==
    /\ call = "createLogger"
    /\ variant = VafastVariant
    /\ EnvIsProduction
    /\ Cfg = [level |-> "debug"]
    /\ Options.level = "debug"
    /\ HasPrettyTransport

\* C9: whenever the pretty transport is attached, each of its three sub-options
\* is the one prettyOptions supplies, or its default when prettyOptions does not
\* (colorize true, translateTime "SYS:standard", ignore "pid,hostname").
C9_PrettySubOptions ==
    (Created /\ HasPrettyTransport) =>
        Options.transport.options =
            [colorize      |-> Get(PrettyOpts, "colorize", TRUE),
             translateTime |-> Get(PrettyOpts, "translateTime", "SYS:standard"),
             ignore        |-> Get(PrettyOpts, "ignore", "pid,hostname")]

\* C10 as stated: with name omitted or empty the options hold no name key; with
\* a non-empty name they hold name with that value.
C10_AsStated ==
    Created =>
        IF Has(Cfg, "name") /\ Cfg.name # ""
        THEN Has(Options, "name") /\ Options.name = Cfg.name
        ELSE ~Has(Options, "name")

\* C10 (amended): provided pinoOptions supplies no name key, the options hold no
\* name key when name is omitted or empty, and hold name with that value when
\* name is a non-empty string; a name key of pinoOptions is handed to pino as
\* it is.
C10_NameKey ==
    Created =>
        IF Has(PinoOpts, "name")
        THEN Has(Options, "name") /\ Options.name = PinoOpts.name
        ELSE IF Has(Cfg, "name") /\ Cfg.name # ""
             THEN Has(Options, "name") /\ Options.name = Cfg.name
             ELSE ~Has(Options, "name")

C10_Witness ==
    /\ Created
    /\ Has(Cfg, "name") /\ Cfg.name = ""
    /\ Has(Cfg, "pinoOptions") /\ ~Has(PinoOpts, "name")
    /\ ~Has(Options, "name")

(***************************************************************************)
(* C11: under SpecHelpers                                                  *)
(***************************************************************************)
\* C11: in logError and logRequest the context is merged after the built-in
\* fields: a context key that collides with a built-in field (err; method, path,
\* status, duration) gives the payload the context's value, every built-in field
\* the context does not name keeps its built-in value, and the call is made all
\* the same.
C11_ContextWins ==
    /\ call = "logError" =>
          /\ Len(forwarded) = 1
          /\ forwarded[1].obj.err =
                (IF Has(Ctx, "err") THEN Ctx.err
                 ELSE [message |-> helperArgs.error.message,
                       name    |-> helperArgs.error.name,
                       stack   |-> helperArgs.error.stack])
    /\ call = "logRequest" =>
          /\ Len(forwarded) = 1
          /\ \A k \in RequestFields :
                forwarded[1].obj[k] = (IF Has(Ctx, k) THEN Ctx[k] ELSE helperArgs[k])

C11_Witness ==
    /\ call = "logRequest"
    /\ helperArgs.method = "GET" /\ helperArgs.status = 404
    /\ Has(Ctx, "method") /\ Has(Ctx, "status") /\ ~Has(Ctx, "path")
    /\ forwarded[1].obj.method = "PATCH"
    /\ forwarded[1].obj.status = 999
    /\ forwarded[1].obj.path = helperArgs.path
    /\ forwarded[1].obj.duration = helperArgs.duration

(***************************************************************************)
(* C13: under SpecHelpers                                                  *)
(***************************************************************************)
\* C13: logError and logRequest add no failure of their own: with a logger call
\* that returns, the helper returns nothing, whatever the error, message and
\* context (left out or not); with a logger call that throws, the helper throws
\* that same failure; either way exactly one logger call was made.
C13_FailurePropagates ==
    call \in {"logError", "logRequest"} =>
        /\ Len(forwarded) = 1
        /\ nforwarded <= MaxHelperCalls
        /\ IF Has(loggerDoes, "throws")
           THEN outcome = [threw |-> loggerDoes.throws]
           ELSE outcome = [returned |-> "undefined"]

C13_Witness ==
    /\ call = "logError"
    /\ ~Has(helperArgs, "message") /\ ~Has(helperArgs, "context")
    /\ Has(loggerDoes, "throws")
    /\ Has(outcome, "threw") /\ outcome.threw.message = "write EPIPE"
    /\ Len(forwarded) = 1

(***************************************************************************)
(* C12: under SpecTwice                                                    *)
(***************************************************************************)
\* Each call built an options object of its own and got a handle of its own
SeparatelyBuilt ==
    /\ Len(optionsAt) = Len(pinoCalls)
    /\ \A i, j \in PinoCallIds : i # j => optionsAt[i] # optionsAt[j]
    /\ \A i \in PinoCallIds : optionsAt[i] > TransportAddress
    /\ call = "createLogger" => returned.pino = Len(pinoCalls)

\* While nothing was written, the calls handed pino equal contents and the
\* caller's config, prettyOptions, pinoOptions and transport are as passed
EqualAndUnmodified ==
    touched = {} =>
        /\ \A i, j \in PinoCallIds : pinoCalls[i] = pinoCalls[j]
        /\ SubSeq(heap, 1, TransportAddress) = CallerHeap(args)

==========================================================================
